---- MODULE Spec2Model ----
(***************************************************************************)
(* Model of xgo.go, the wrapper around the CGO cross compiler docker       *)
(* container.                                                              *)
(*                                                                         *)
(* A Go string is a finite sequence of atoms (an atom stands for a run of  *)
(* bytes that the program never looks inside, such as "linux64" or the     *)
(* separator ","); string concatenation is \o.  An argv is a sequence of   *)
(* such strings.                                                           *)
(***************************************************************************)
EXTENDS Integers, Sequences, FiniteSets, TLC

VARIABLES
    pc,            \* position of main: start, checkDocker, checkDockerImage,
                   \* pullDockerImage, compile, exited
    args,          \* flag.Args(): the positional arguments
    goVersion,     \* *goVersion
    targets,       \* *targets
    buildVerbose,  \* *buildVerbose
    buildRace,     \* *buildRace
    procs,         \* external processes started so far, in start order
    image,         \* the argument checkDockerImage was called with
    out,           \* output captured from docker images
    found,         \* result of checkDockerImage
    exitCode,      \* exit code of the program (-1 while it runs)
    fatal,         \* which log.Fatalf ended the program
    other,         \* a second target spec string, for getTargets alone
    res,           \* getTargets(targets), once called
    resOther       \* getTargets(other), once called

vars == <<pc, args, goVersion, targets, buildVerbose, buildRace,
          procs, image, out, found, exitCode, fatal, other, res, resOther>>

----------------------------------------------------------------------------
(* Bounds *)

\* longest target spec string (in atoms) the getTargets runs start from
MaxLen == 3

\* longest target spec string (in atoms) given to a run of main
PipeLen == 2

\* most tokens a target spec string is grown to by repeating tokens
MaxTokens == 3

----------------------------------------------------------------------------
(* Strings *)

Comma == ","

Ids == {"linux64", "linux386", "linuxArm", "windows64", "windows386",
        "darwin64", "darwin386"}

\* atoms target spec strings are made of: the identifiers, the sentinel,
\* the separator and some other text
Alphabet == Ids \cup {"all", Comma, "x"}

StrSet(n) == UNION {[1..k -> Alphabet] : k \in 0..n}

dockerBase == <<"karalabe/xgo-base">>
dockerDist == <<"karalabe/xgo-">>

\* strings.Split(s, ","): n separators give n+1 tokens, "" gives [""]
RECURSIVE SplitAcc(_, _, _, _)
SplitAcc(s, i, cur, acc) ==
    IF i > Len(s) THEN Append(acc, cur)
    ELSE IF s[i] = Comma THEN SplitAcc(s, i + 1, <<>>, Append(acc, cur))
    ELSE SplitAcc(s, i + 1, Append(cur, s[i]), acc)

Split(s) == SplitAcc(s, 1, <<>>, <<>>)

\* strings.Join(list, ",")
RECURSIVE Join(_)
Join(list) ==
    IF list = <<>> THEN <<>>
    ELSE IF Len(list) = 1 THEN list[1]
    ELSE list[1] \o <<Comma>> \o Join(Tail(list))

\* bytes.Contains(o, sub)
Contains(o, sub) ==
    \E i \in 0..(Len(o) - Len(sub)) : SubSeq(o, i + 1, i + Len(sub)) = sub

\* %v of a bool
FormatBool(b) == IF b THEN <<"true">> ELSE <<"false">>

----------------------------------------------------------------------------
(* getTargets *)

\* a variant that looks at the first element only
stringInSlice_first(a, list) == list # <<>> /\ Head(list) = a

RECURSIVE stringInSlice(_, _)
stringInSlice(a, list) ==
    IF list = <<>> THEN FALSE
    ELSE IF Head(list) = a THEN TRUE
    ELSE stringInSlice(a, Tail(list))

Flag(id, t) == IF stringInSlice(<<id>>, Split(t)) THEN <<"true">> ELSE <<"false">>

\* a variant that takes "all" as a token of the list
getTargets_token(t) ==
    IF ~stringInSlice(<<"all">>, Split(t)) THEN
        [linux64 |-> Flag("linux64", t), linux386 |-> Flag("linux386", t),
         linuxArm |-> Flag("linuxArm", t), windows64 |-> Flag("windows64", t),
         windows386 |-> Flag("windows386", t), darwin64 |-> Flag("darwin64", t),
         darwin386 |-> Flag("darwin386", t)]
    ELSE
        [linux64 |-> <<"true">>, linux386 |-> <<"true">>,
         linuxArm |-> <<"true">>, windows64 |-> <<"true">>,
         windows386 |-> <<"true">>, darwin64 |-> <<"true">>,
         darwin386 |-> <<"true">>]

getTargets(t) ==
    IF t # <<"all">> THEN
        [linux64 |-> Flag("linux64", t), linux386 |-> Flag("linux386", t),
         linuxArm |-> Flag("linuxArm", t), windows64 |-> Flag("windows64", t),
         windows386 |-> Flag("windows386", t), darwin64 |-> Flag("darwin64", t),
         darwin386 |-> Flag("darwin386", t)]
    ELSE
        [linux64 |-> <<"true">>, linux386 |-> <<"true">>,
         linuxArm |-> <<"true">>, windows64 |-> <<"true">>,
         windows386 |-> <<"true">>, darwin64 |-> <<"true">>,
         darwin386 |-> <<"true">>]

\* value of res before getTargets has been called
NoFlags == [linux64 |-> <<>>, linux386 |-> <<>>, linuxArm |-> <<>>,
            windows64 |-> <<>>, windows386 |-> <<>>, darwin64 |-> <<>>,
            darwin386 |-> <<>>]

----------------------------------------------------------------------------
(* Inputs *)

GoVersions == {<<"latest">>, <<"1.3">>, <<"1.3", ".1">>}

ImportPaths == {<<"github.com/a/b">>, <<"github.com/c/d">>}

ArgLists == {<<>>} \cup {<<p>> : p \in ImportPaths}
                \cup {<<p, q>> : p, q \in ImportPaths}

\* what docker images --no-trunc may print
Listings == {<<>>,
             <<"REPOSITORY", "karalabe/xgo-base">>,
             <<"REPOSITORY", "karalabe/xgo-", "latest">>,
             <<"REPOSITORY", "karalabe/xgo-", "1.3", ".1">>}

\* how an external command may end: exit code zero, exit code non-zero, or
\* it could not be started at all
Outcomes == {"ok", "nonzero", "nospawn"}

\* os.Getwd()
Folder == <<"/home/user/project">>

\* the flags that the model keeps fixed
srcRemote == <<"origin">>
inPackage == <<>>
srcBranch == <<>>
crossDeps == <<>>
outPrefix == <<>>

----------------------------------------------------------------------------
(* The commands *)

checkDockerCommand == << <<"docker">>, <<"version">> >>

checkDockerImageCommand == << <<"docker">>, <<"images">>, <<"--no-trunc">> >>

pullDockerImageCommand(img) == << <<"docker">>, <<"pull">>, img >>

\* a variant that runs the base image
compileCommand_base(folder, repo, remote, branch, pack, tgts, deps, prefix, verbose, race, version) ==
    LET f == getTargets(tgts) IN
    << <<"docker">>, <<"run">>,
       <<"-v">>, folder \o <<":/build">>,
       <<"-e">>, <<"REPO_REMOTE", "=">> \o remote,
       <<"-e">>, <<"REPO_BRANCH", "=">> \o branch,
       <<"-e">>, <<"PACK", "=">> \o pack,
       <<"-e">>, <<"LINUX64", "=">> \o f.linux64,
       <<"-e">>, <<"LINUX386", "=">> \o f.linux386,
       <<"-e">>, <<"LINUXARM", "=">> \o f.linuxArm,
       <<"-e">>, <<"WINDOWS64", "=">> \o f.windows64,
       <<"-e">>, <<"WINDOWS386", "=">> \o f.windows386,
       <<"-e">>, <<"DARWIN64", "=">> \o f.darwin64,
       <<"-e">>, <<"DARWIN386", "=", "%s">> \o f.darwin386,
       <<"-e">>, <<"DEPS", "=">> \o deps,
       <<"-e">>, <<"OUT", "=">> \o prefix,
       <<"-e">>, <<"FLAG_V", "=">> \o FormatBool(verbose),
       <<"-e">>, <<"FLAG_RACE", "=">> \o FormatBool(race),
       dockerBase, repo >>

compileCommand(folder, repo, remote, branch, pack, tgts, deps, prefix, verbose, race, version) ==
    LET f == getTargets(tgts) IN
    << <<"docker">>, <<"run">>,
       <<"-v">>, folder \o <<":/build">>,
       <<"-e">>, <<"REPO_REMOTE", "=">> \o remote,
       <<"-e">>, <<"REPO_BRANCH", "=">> \o branch,
       <<"-e">>, <<"PACK", "=">> \o pack,
       <<"-e">>, <<"LINUX64", "=">> \o f.linux64,
       <<"-e">>, <<"LINUX386", "=">> \o f.linux386,
       <<"-e">>, <<"LINUXARM", "=">> \o f.linuxArm,
       <<"-e">>, <<"WINDOWS64", "=">> \o f.windows64,
       <<"-e">>, <<"WINDOWS386", "=">> \o f.windows386,
       <<"-e">>, <<"DARWIN64", "=">> \o f.darwin64,
       <<"-e">>, <<"DARWIN386", "=", "%s">> \o f.darwin386,
       <<"-e">>, <<"DEPS", "=">> \o deps,
       <<"-e">>, <<"OUT", "=">> \o prefix,
       <<"-e">>, <<"FLAG_V", "=">> \o FormatBool(verbose),
       <<"-e">>, <<"FLAG_RACE", "=">> \o FormatBool(race),
       dockerDist \o version, repo >>

\* a process that has been handed to the operating system
Started(argv) == [argv |-> argv, status |-> "running"]

\* the last started process ends with outcome r
Ended(r) == [procs EXCEPT ![Len(procs)].status = r]

----------------------------------------------------------------------------
(* The decisions of main *)

\* a variant that drops the error
IsErr_never(r) == FALSE

\* err != nil for an error returned by run / Output

checkDockerErr(r) == r # "ok"

checkDockerImageErr(r) == r # "ok"

pullDockerImageErr(r) == r # "ok"

compileErr(r) == r # "ok"

\* a variant that only rejects more than one argument
BadArgs_many(a) == Len(a) > 1

\* len(flag.Args()) != 1

BadArgs(a) == Len(a) # 1

\* a variant that pulls in every case
NeedsPull_always(fnd) == TRUE

\* the switch of main pulls in the case !found

NeedsPull(fnd) == ~fnd

\* log.Fatalf: the program ends with exit code 1
Fatalf(stage) ==
    /\ pc' = "exited"
    /\ exitCode' = 1
    /\ fatal' = stage

\* entry of compile: os.Getwd, getTargets, then docker run is started
EnterCompile(ps) ==
    \E wd \in {"ok", "fail"} :
        IF wd = "fail"
        THEN /\ Fatalf("getwd")
             /\ procs' = ps
        ELSE /\ pc' = "compile"
             /\ procs' = Append(ps, Started(compileCommand(Folder, args[1],
                            srcRemote, srcBranch, inPackage, targets, crossDeps,
                            outPrefix, buildVerbose, buildRace, goVersion)))
             /\ UNCHANGED <<exitCode, fatal>>

inputs == <<args, goVersion, targets, buildVerbose, buildRace>>

pure == <<other, res, resOther>>

----------------------------------------------------------------------------
(* main *)

Init ==
    /\ pc = "start"
    /\ args \in ArgLists
    /\ goVersion \in GoVersions
    /\ targets \in StrSet(PipeLen)
    /\ buildVerbose \in BOOLEAN
    /\ buildRace \in BOOLEAN
    /\ procs = <<>>
    /\ image = <<>>
    /\ out = <<>>
    /\ found = FALSE
    /\ exitCode = -1
    /\ fatal = "none"
    /\ other = <<>>
    /\ res = NoFlags
    /\ resOther = NoFlags

\* flag.Parse, then checkDocker starts docker version
Launch ==
    /\ pc = "start"
    /\ pc' = "checkDocker"
    /\ procs' = <<Started(checkDockerCommand)>>
    /\ UNCHANGED <<inputs, image, out, found, exitCode, fatal, pure>>

\* docker version ends; main validates the arguments and calls
\* checkDockerImage, which starts docker images
VersionExits ==
    /\ pc = "checkDocker"
    /\ \E r \in Outcomes :
        IF checkDockerErr(r)
        THEN /\ Fatalf("docker")
             /\ procs' = Ended(r)
             /\ UNCHANGED image
        ELSE IF BadArgs(args)
        THEN /\ Fatalf("usage")
             /\ procs' = Ended(r)
             /\ UNCHANGED image
        ELSE /\ pc' = "checkDockerImage"
             /\ image' = dockerDist \o goVersion
             /\ procs' = Append(Ended(r), Started(checkDockerImageCommand))
             /\ UNCHANGED <<exitCode, fatal>>
    /\ UNCHANGED <<inputs, out, found, pure>>

\* docker images ends; the switch of main pulls the image or goes on to
\* compile
ImagesExits ==
    /\ pc = "checkDockerImage"
    /\ \E r \in Outcomes, o \in Listings :
        IF checkDockerImageErr(r)
        THEN /\ Fatalf("image")
             /\ procs' = Ended(r)
             /\ UNCHANGED <<out, found>>
        ELSE /\ out' = o
             /\ found' = Contains(o, image)
             /\ IF NeedsPull(found')
                THEN /\ pc' = "pullDockerImage"
                     /\ procs' = Append(Ended(r), Started(
                            pullDockerImageCommand(dockerDist \o goVersion)))
                     /\ UNCHANGED <<exitCode, fatal>>
                ELSE EnterCompile(Ended(r))
    /\ UNCHANGED <<inputs, image, pure>>

\* docker pull ends; main goes on to compile
PullExits ==
    /\ pc = "pullDockerImage"
    /\ \E r \in Outcomes :
        IF pullDockerImageErr(r)
        THEN /\ Fatalf("pull")
             /\ procs' = Ended(r)
        ELSE EnterCompile(Ended(r))
    /\ UNCHANGED <<inputs, image, out, found, pure>>

\* docker run ends; main returns or fails
RunExits ==
    /\ pc = "compile"
    /\ \E r \in Outcomes :
        /\ procs' = Ended(r)
        /\ IF compileErr(r)
           THEN Fatalf("compile")
           ELSE /\ pc' = "exited"
                /\ exitCode' = 0
                /\ UNCHANGED fatal
    /\ UNCHANGED <<inputs, image, out, found, pure>>

Next == Launch \/ VersionExits \/ ImagesExits \/ PullExits \/ RunExits

Spec == Init /\ [][Next]_vars

----------------------------------------------------------------------------
(* getTargets on its own: a target spec string, a rearrangement of it, and
   the call *)

\* the tokens of list with those at positions i and j exchanged
Swap(list, i, j) == [list EXCEPT ![i] = list[j], ![j] = list[i]]

\* list without its i-th token
Remove(list, i) == SubSeq(list, 1, i - 1) \o SubSeq(list, i + 1, Len(list))

InitTargets ==
    /\ pc = "start"
    /\ args = <<>>
    /\ goVersion = <<"latest">>
    /\ targets \in StrSet(MaxLen)
    /\ buildVerbose = FALSE
    /\ buildRace = FALSE
    /\ procs = <<>>
    /\ image = <<>>
    /\ out = <<>>
    /\ found = FALSE
    /\ exitCode = -1
    /\ fatal = "none"
    /\ other = targets
    /\ res = NoFlags
    /\ resOther = NoFlags

main == <<pc, args, goVersion, buildVerbose, buildRace, procs, image, out,
          found, exitCode, fatal>>

\* two tokens of the spec change places
SwapTokens ==
    /\ res = NoFlags
    /\ \E i, j \in 1..Len(Split(targets)) :
        /\ i < j
        /\ targets' = Join(Swap(Split(targets), i, j))
    /\ UNCHANGED <<main, other, res, resOther>>

\* a token of the spec is repeated at the end
RepeatToken ==
    /\ res = NoFlags
    /\ Len(Split(targets)) < MaxTokens
    /\ \E i \in 1..Len(Split(targets)) :
        targets' = targets \o <<Comma>> \o Split(targets)[i]
    /\ UNCHANGED <<main, other, res, resOther>>

\* a token that occurs twice loses one occurrence
DropRepeated ==
    /\ res = NoFlags
    /\ \E i, j \in 1..Len(Split(targets)) :
        /\ i # j
        /\ Split(targets)[i] = Split(targets)[j]
        /\ targets' = Join(Remove(Split(targets), i))
    /\ UNCHANGED <<main, other, res, resOther>>

\* getTargets is called on both strings
CallGetTargets ==
    /\ res = NoFlags
    /\ res' = getTargets(targets)
    /\ resOther' = getTargets(other)
    /\ UNCHANGED <<main, targets, other>>

NextTargets == SwapTokens \/ RepeatToken \/ DropRepeated \/ CallGetTargets

SpecTargets == InitTargets /\ [][NextTargets]_vars

----------------------------------------------------------------------------
(* What the properties speak about *)

True == <<"true">>
False == <<"false">>

Bool(b) == IF b THEN True ELSE False

\* id stands in t between two separators (or the ends of t)
IsToken(id, t) ==
    \E i \in 1..Len(t) :
        /\ t[i] = id
        /\ (i = 1 \/ t[i - 1] = Comma)
        /\ (i = Len(t) \/ t[i + 1] = Comma)

TokenSet(t) == {Split(t)[i] : i \in 1..Len(Split(t))}

\* the docker subcommand of a process
Kind(p) == p.argv[2][1]

Failed(p) == p.status \in {"nonzero", "nospawn"}

Indices(kind) == {i \in 1..Len(procs) : Kind(procs[i]) = kind}

RunStarted == Indices("run") # {}

ImagesOk == \E i \in Indices("images") : procs[i].status = "ok"

\* the value of the environment variable name in a docker run argv
EnvValue(argv, name) ==
    LET i == CHOOSE k \in 1..Len(argv) :
                 /\ k > 1
                 /\ argv[k - 1] = <<"-e">>
                 /\ Len(argv[k]) >= 2
                 /\ argv[k][1] = name
                 /\ argv[k][2] = "="
    IN SubSeq(argv[i], 3, Len(argv[i]))

TargetEnv(argv) ==
    [linux64 |-> EnvValue(argv, "LINUX64"),
     linux386 |-> EnvValue(argv, "LINUX386"),
     linuxArm |-> EnvValue(argv, "LINUXARM"),
     windows64 |-> EnvValue(argv, "WINDOWS64"),
     windows386 |-> EnvValue(argv, "WINDOWS386"),
     darwin64 |-> EnvValue(argv, "DARWIN64"),
     darwin386 |-> EnvValue(argv, "DARWIN386")]

AllTrue == [linux64 |-> True, linux386 |-> True, linuxArm |-> True,
            windows64 |-> True, windows386 |-> True, darwin64 |-> True,
            darwin386 |-> True]

AllFalse == [linux64 |-> False, linux386 |-> False, linuxArm |-> False,
             windows64 |-> False, windows386 |-> False, darwin64 |-> False,
             darwin386 |-> False]

----------------------------------------------------------------------------
(* Properties *)

C2_Original == Len(args) # 1 => procs = <<>>

\* C2 amended: with a number of positional arguments other than one, the
\* only external process ever started is the docker version query; the
\* program exits non-zero, with the usage message when that query succeeded.
C2_Amended ==
    Len(args) # 1 =>
        /\ Len(procs) <= 1
        /\ \A i \in 1..Len(procs) :
               procs[i].argv = << <<"docker">>, <<"version">> >>
        /\ pc = "exited" =>
               /\ exitCode # 0
               /\ fatal = (IF procs[1].status = "ok" THEN "usage" ELSE "docker")

\* no positional argument, docker version succeeded, the usage error ended
\* the program
C2_Witness ==
    /\ Len(args) = 0
    /\ pc = "exited"
    /\ fatal = "usage"
    /\ procs[1].status = "ok"

\* C3: when the presence check reported the image present, no docker pull
\* is ever started; when docker run has been started and the check reported
\* the image absent, exactly one docker pull of that image was started, and
\* it ended successfully before docker run was started.
C3_PullBeforeRun ==
    /\ (ImagesOk /\ found) => Indices("pull") = {}
    /\ (RunStarted /\ ~found) =>
           /\ Cardinality(Indices("pull")) = 1
           /\ \A i \in Indices("pull") :
                  /\ procs[i].argv[3] = <<"karalabe/xgo-">> \o goVersion
                  /\ procs[i].status = "ok"
                  /\ \A j \in Indices("run") : i < j

\* the image was absent, it was pulled, and docker run has been started
C3_Witness ==
    /\ RunStarted
    /\ ~found
    /\ Indices("pull") # {}

\* C4: when docker version fails (not started, or non-zero exit), the
\* program ends at once with a non-zero code; no other process is started
\* and docker version is not started again.
C4_VersionFailure ==
    (Len(procs) >= 1 /\ Failed(procs[1])) =>
        /\ Len(procs) = 1
        /\ pc = "exited"
        /\ exitCode # 0
        /\ fatal = "docker"

\* docker version could not be started
C4_Witness ==
    /\ Len(procs) = 1
    /\ procs[1].status = "nospawn"
    /\ pc = "exited"

\* C5: in the docker run invocation each of the seven target environment
\* variables carries exactly the "true" / "false" of its Target Flag Set
\* entry.
C5_TargetEnv ==
    \A i \in Indices("run") : TargetEnv(procs[i].argv) = getTargets(targets)

\* C6: the program exits with code 0 iff docker run was started and exited
\* zero; a failed listing, pull or run ends the program with a non-zero
\* code, and no process is started after a failed one.
C6_FatalOnFirstError ==
    /\ pc = "exited" =>
           /\ exitCode \in {0, 1}
           /\ exitCode = 0 <=> \E i \in Indices("run") : procs[i].status = "ok"
    /\ \A i \in 1..Len(procs) :
           Failed(procs[i]) =>
               /\ i = Len(procs)
               /\ pc = "exited"
               /\ exitCode # 0

\* the pull failed and the program ended without starting docker run
C6_Witness ==
    /\ pc = "exited"
    /\ fatal = "pull"
    /\ \E i \in Indices("pull") : procs[i].status = "nonzero"
    /\ ~RunStarted

\* C7: for a target spec without a recognized token (the empty one
\* included) docker run is started with all seven target variables "false".
C7_NoOpRequest ==
    (/\ targets # <<"all">>
     /\ \A id \in Ids : ~IsToken(id, targets)) =>
        \A i \in Indices("run") : TargetEnv(procs[i].argv) = AllFalse

\* C8: two target spec strings, neither "all", with the same set of tokens
\* get the same flags.
C8_TokenSetOnly ==
    (/\ res # NoFlags
     /\ targets # <<"all">>
     /\ other # <<"all">>
     /\ TokenSet(targets) = TokenSet(other)) => res = resOther

\* getTargets has been called on two different strings that name linux64
\* and darwin64
C8_Witness ==
    /\ res # NoFlags
    /\ targets # other
    /\ IsToken("linux64", targets)
    /\ IsToken("darwin64", targets)
    /\ res.linux64 = True
    /\ res.darwin64 = True
    /\ res = resOther

\* C9: the processes are started in the order version, images, (pull,)
\* run, each at most once; at most one runs at any moment; each is started
\* only after the one before it ended successfully.
C9_Order ==
    /\ \E o \in {<<"version", "images", "pull", "run">>,
                 <<"version", "images", "run">>} :
           /\ Len(procs) <= Len(o)
           /\ \A i \in 1..Len(procs) : Kind(procs[i]) = o[i]
    /\ Cardinality({i \in 1..Len(procs) : procs[i].status = "running"}) <= 1
    /\ \A i \in 2..Len(procs) : procs[i - 1].status = "ok"

\* all four processes were started and docker run is running
C9_Witness ==
    /\ Len(procs) = 4
    /\ procs[4].status = "running"
    /\ Kind(procs[4]) = "run"

\* C10: the image tested by the presence check, the image pulled and the
\* image named in docker run are all "karalabe/xgo-" followed by the -go
\* value, and the import path is the last argument of docker run.
C10_SameImage ==
    LET img == <<"karalabe/xgo-">> \o goVersion IN
    /\ Indices("images") # {} => image = img
    /\ ImagesOk => found = Contains(out, img)
    /\ \A i \in Indices("pull") :
           procs[i].argv = << <<"docker">>, <<"pull">>, img >>
    /\ \A i \in Indices("run") :
           LET a == procs[i].argv IN
           /\ a[Len(a) - 1] = img
           /\ a[Len(a)] = args[1]

\* the image was checked, pulled and used by docker run
C10_Witness ==
    /\ Indices("pull") # {}
    /\ RunStarted
    /\ goVersion = <<"1.3">>

====
